---- MODULE Spec2Model ----
(***************************************************************************)
(* A model of src/libslic3r/SLA/Hollowing.cpp:                             *)
(*   - _generate_interior / generate_interior, the staged shell generator  *)
(*     with its four cancellation polls, run next to a thread that may     *)
(*     raise the cancellation flag (specification Spec);                   *)
(*   - DrainHole::get_intersections (specification SpecHole);              *)
(*   - DrainHole::is_inside (specification SpecInside).                    *)
(* Floating-point values are modelled as exact rationals <<num, den>>      *)
(* (den > 0, lowest terms) with a NaN value <<0, 0>> that propagates       *)
(* through arithmetic and fails every comparison, as IEEE NaN does.        *)
(* Rounding is not modelled: the geometric inputs are drawn from sets on   *)
(* which every square root the code takes is exact.                        *)
(***************************************************************************)
EXTENDS Integers, Sequences, FiniteSets

(***************************************************************************)
(* Bounds of the model.                                                    *)
(***************************************************************************)
\* quality is drawn from {0, 1/QualitySteps, ..., 1}
QualitySteps == 2
\* min_thickness is drawn from 1..MaxThickness
MaxThickness == 2
\* closing_distance is drawn from 0..MaxClosing
MaxClosing == 1
\* ray origins and query points have integer coordinates in -MaxCoord..MaxCoord
MaxCoord == 2

(***************************************************************************)
(* Exact arithmetic standing for float / double.                           *)
(***************************************************************************)
Abs(n) == IF n < 0 THEN -n ELSE n

RECURSIVE Gcd(_, _)
Gcd(a, b) == IF b = 0 THEN a ELSE Gcd(b, a % b)

NaN == <<0, 0>>

IsNaN(q) == q[2] = 0

\* the rational n / d in lowest terms
Q(n, d) ==
    IF d = 1 THEN <<n, 1>>
    ELSE IF d = 0 THEN NaN
    ELSE LET g == Gcd(Abs(n), Abs(d))
             sg == IF d < 0 THEN -1 ELSE 1
         IN  <<(sg * n) \div g, (sg * d) \div g>>

Zero == Q(0, 1)

One == Q(1, 1)

Two == Q(2, 1)

Add(a, b) ==
    IF IsNaN(a) \/ IsNaN(b) THEN NaN
    ELSE IF a[2] = b[2] THEN Q(a[1] + b[1], a[2])
    ELSE Q(a[1] * b[2] + b[1] * a[2], a[2] * b[2])

Neg(a) == IF IsNaN(a) THEN NaN ELSE <<-a[1], a[2]>>

Sub(a, b) == Add(a, Neg(b))

Mul(a, b) ==
    IF IsNaN(a) \/ IsNaN(b) THEN NaN ELSE Q(a[1] * b[1], a[2] * b[2])

\* x / 0 is +-inf or NaN in IEEE arithmetic; no guard of the code lets a
\* zero divisor through on the inputs of this model, and NaN stands for it.
Div(a, b) ==
    IF IsNaN(a) \/ IsNaN(b) THEN NaN ELSE Q(a[1] * b[2], a[2] * b[1])

Lt(a, b) == ~IsNaN(a) /\ ~IsNaN(b) /\ a[1] * b[2] < b[1] * a[2]

Gt(a, b) == Lt(b, a)

Le(a, b) == ~IsNaN(a) /\ ~IsNaN(b) /\ a[1] * b[2] <= b[1] * a[2]

FAbs(a) == IF IsNaN(a) THEN NaN ELSE <<Abs(a[1]), a[2]>>

RECURSIVE RootFrom(_, _)
RootFrom(n, k) == IF k * k >= n THEN k ELSE RootFrom(n, k + 1)

IsSquare(n) == LET k == RootFrom(n, 0) IN n >= 0 /\ k * k = n

IsSquareQ(q) == ~IsNaN(q) /\ IsSquare(q[1]) /\ IsSquare(q[2])

\* std::sqrt: NaN on a negative argument, exact on the square of a rational.
\* Every other argument would round; ExactRay keeps them out of the model, and
\* NaN stands for them here.
Sqrt(q) ==
    LET n == RootFrom(q[1], 0)
        d == RootFrom(q[2], 0)
    IN  IF ~IsNaN(q) /\ q[1] >= 0 /\ n * n = q[1] /\ d * d = q[2]
        THEN Q(n, d)
        ELSE NaN

\* libslic3r's tolerance, 1e-4
EPSILON == Q(1, 10000)

\* libslic3r's is_approx: equal within a tolerance. On the directions and
\* normals of this model a dot product is 0, +-1 or at least 1/5 away from
\* both, so the size of the tolerance does not matter.
IsApprox(a, b) == Lt(FAbs(Sub(a, b)), EPSILON)

(***************************************************************************)
(* State.                                                                  *)
(***************************************************************************)
VARIABLES
    \* generate_interior
    pc,        \* position of the calling thread in _generate_interior
    stop,      \* the flag ctl.stopcondition() reads
    ndebug,    \* whether the build defines NDEBUG (assert compiled out)
    hc,        \* HollowingConfig
    loc,       \* locals: voxel_scale, offset, D, out_range, in_range
    imesh,     \* the working copy of the input surface
    gridptr,   \* the grid handle
    omesh,     \* the extracted surface
    result,    \* what the call returned
    reports,   \* the percentages passed to ctl.statuscb, in order
    calls,     \* the engine operations started, in order
    stopSeen,  \* a stopcondition poll has returned true
    \* DrainHole
    hole,      \* the DrainHole queried
    phase,     \* "idle", "intersected" (get_intersections returned), "tested"
    ray,       \* arguments s, dir of get_intersections
    pt,        \* argument of is_inside
    out,       \* the out array of get_intersections
    ret,       \* the value the query returned
    found,     \* get_intersections' counter of accepted hits
    hits       \* the accepted hits in the order of acceptance, with their step

ivars == <<pc, stop, ndebug, hc, loc, imesh, gridptr, omesh, result, reports,
           calls, stopSeen>>

hvars == <<hole, phase, ray, pt, out, ret, found, hits>>

vars == <<pc, stop, ndebug, hc, loc, imesh, gridptr, omesh, result, reports,
          calls, stopSeen, hole, phase, ray, pt, out, ret, found, hits>>

(***************************************************************************)
(* Interior shell generator.                                               *)
(***************************************************************************)
MAX_OVERSAMPL == 7

\* A surface: empty or not, the uniform scale applied to it relative to model
\* units, and the isovalue it was extracted at (NaN for the input surface).
EmptySurface == [empty |-> TRUE, scale |-> One, iso |-> NaN]

InputSurface == [empty |-> FALSE, scale |-> One, iso |-> NaN]

\* _scale(s, m): m.scale(float(s)) / p *= s
ScaleSurface(s, m) == [m EXCEPT !.scale = Mul(m.scale, s)]

NullGrid == [null |-> TRUE, scale |-> One, zero |-> NaN]

NoLocals == [voxel_scale |-> NaN, offset |-> NaN, D |-> NaN,
             out_range |-> NaN, in_range |-> NaN]

Configs ==
    { [quality |-> Q(k, QualitySteps), min_thickness |-> Q(t, 1),
       closing_distance |-> Q(c, 1)] :
        k \in 0..QualitySteps, t \in 1..MaxThickness, c \in 0..MaxClosing }

VoxelScale(c) == Add(One, Mul(Q(MAX_OVERSAMPL, 1), c.quality))

Locals(c) ==
    LET vs == VoxelScale(c)
        offset == Mul(vs, c.min_thickness)
        D == Mul(vs, c.closing_distance)
    IN  [voxel_scale |-> vs, offset |-> offset, D |-> D,
         out_range |-> Mul(Q(1, 10), offset),
         in_range |-> Mul(Q(11, 10), Add(offset, D))]

\* mutant: the second and third milestones exchanged
StagePercentSwapped(i) == <<0, 70, 30, 100>>[i]

StagePercent(i) == <<0, 30, 70, 100>>[i]

\* mutant: the early return is missing
AfterPollIgnoringCancel(cancelled, next) == next

\* if (ctl.stopcondition()) return {}; else ctl.statuscb(...): where the thread
\* goes after the poll
AfterPoll(cancelled, next) == IF cancelled THEN "done" ELSE next

EngineCall(op, s, a, b) == [op |-> op, s |-> s, a |-> a, b |-> b]

\* redistance_grid(*gridptr, -(offset + D), double(in_range))
RedistanceIso(l) == Neg(Add(l.offset, l.D))

\* mutant: the else branch D = -offset is missing
ClosedDWithoutReset(c, l) == l.D

\* D after lines 82-86
ClosedD(c, l) == IF Gt(c.closing_distance, Zero) THEN l.D ELSE Neg(l.offset)

\* _scale(1. / voxel_scale, omesh)
OutputScale(l) == Div(One, l.voxel_scale)

HoleIdle ==
    /\ hole = [pos |-> <<Zero, Zero, Zero>>, normal |-> <<Zero, Zero, One>>,
               radius |-> One, height |-> One]
    /\ phase = "unused"
    /\ ray = <<>>
    /\ pt = <<>>
    /\ out = <<>>
    /\ ret = "none"
    /\ found = 0
    /\ hits = <<>>

Init ==
    /\ pc = "start"
    /\ stop = FALSE
    /\ ndebug \in BOOLEAN
    /\ hc \in Configs
    /\ loc = NoLocals
    /\ imesh = InputSurface
    /\ gridptr = NullGrid
    /\ omesh = EmptySurface
    /\ result = "none"
    /\ reports = <<>>
    /\ calls = <<>>
    /\ stopSeen = FALSE
    /\ HoleIdle

\* Another thread raises the cancellation flag.
Cancel ==
    /\ ~stop
    /\ stop' = TRUE
    /\ UNCHANGED <<pc, ndebug, hc, loc, imesh, gridptr, omesh, result,
                   reports, calls, stopSeen>>
    /\ UNCHANGED hvars

\* generate_interior's voxel_scale and lines 58-65
Setup ==
    /\ pc = "start"
    /\ loc' = Locals(hc)
    /\ imesh' = ScaleSurface(VoxelScale(hc), imesh)
    /\ pc' = "poll1"
    /\ UNCHANGED <<stop, ndebug, hc, gridptr, omesh, result, reports, calls,
                   stopSeen>>
    /\ UNCHANGED hvars

\* The i-th stopcondition poll with its status report (lines 67-68, 79-80,
\* 88-89); next is the stage that follows.
Poll(i, next) ==
    /\ pc = <<"poll1", "poll2", "poll3">>[i]
    /\ stopSeen' = (stopSeen \/ stop)
    /\ pc' = AfterPoll(stop, next)
    /\ result' = IF pc' = "done" THEN EmptySurface ELSE result
    /\ reports' = IF stop THEN reports ELSE Append(reports, StagePercent(i))
    /\ UNCHANGED <<stop, ndebug, hc, loc, imesh, gridptr, omesh, calls>>
    /\ UNCHANGED hvars

Poll1 == Poll(1, "build")

\* lines 70-77: mesh_to_grid, which may return no grid; assert(gridptr) ends
\* the process unless NDEBUG compiles it out.
BuildGrid ==
    /\ pc = "build"
    /\ calls' = Append(calls, EngineCall("build_grid", imesh.scale,
                                         loc.out_range, loc.in_range))
    /\ \E ok \in BOOLEAN :
         /\ gridptr' = IF ok THEN [null |-> FALSE, scale |-> imesh.scale,
                                   zero |-> Zero]
                       ELSE NullGrid
         /\ pc' = IF ok THEN "poll2" ELSE IF ndebug THEN "done" ELSE "aborted"
         /\ result' = IF ~ok /\ ndebug THEN EmptySurface ELSE result
    /\ UNCHANGED <<stop, ndebug, hc, loc, imesh, omesh, reports, stopSeen>>
    /\ UNCHANGED hvars

Poll2 == Poll(2, "closing")

\* lines 82-86
Closing ==
    /\ pc = "closing"
    /\ IF Gt(hc.closing_distance, Zero)
       THEN /\ calls' = Append(calls, EngineCall("redistance", gridptr.scale,
                                       RedistanceIso(loc), loc.in_range))
            /\ gridptr' = [gridptr EXCEPT !.zero = RedistanceIso(loc)]
       ELSE UNCHANGED <<calls, gridptr>>
    /\ loc' = [loc EXCEPT !.D = ClosedD(hc, loc)]
    /\ pc' = "poll3"
    /\ UNCHANGED <<stop, ndebug, hc, imesh, omesh, result, reports, stopSeen>>
    /\ UNCHANGED hvars

Poll3 == Poll(3, "extract")

\* lines 91-95
Extract ==
    /\ pc = "extract"
    /\ calls' = Append(calls, EngineCall("extract_isosurface", gridptr.scale,
                                         loc.D, Zero))
    /\ omesh' = ScaleSurface(OutputScale(loc),
                    [empty |-> FALSE, scale |-> gridptr.scale, iso |-> loc.D])
    /\ pc' = "poll4"
    /\ UNCHANGED <<stop, ndebug, hc, loc, imesh, gridptr, result, reports,
                   stopSeen>>
    /\ UNCHANGED hvars

\* lines 97-100
Poll4 ==
    /\ pc = "poll4"
    /\ stopSeen' = (stopSeen \/ stop)
    /\ pc' = AfterPoll(stop, "done")
    /\ result' = IF stop THEN EmptySurface ELSE omesh
    /\ reports' = IF stop THEN reports ELSE Append(reports, StagePercent(4))
    /\ UNCHANGED <<stop, ndebug, hc, loc, imesh, gridptr, omesh, calls>>
    /\ UNCHANGED hvars

Next ==
    \/ Cancel
    \/ Setup
    \/ Poll1
    \/ BuildGrid
    \/ Poll2
    \/ Closing
    \/ Poll3
    \/ Extract
    \/ Poll4

Spec == Init /\ [][Next]_vars

(***************************************************************************)
(* Linear algebra (Eigen) on vectors of three rationals.                   *)
(***************************************************************************)
V(x, y, z) == <<Q(x, 1), Q(y, 1), Q(z, 1)>>

VAdd(a, b) == <<Add(a[1], b[1]), Add(a[2], b[2]), Add(a[3], b[3])>>

VSub(a, b) == <<Sub(a[1], b[1]), Sub(a[2], b[2]), Sub(a[3], b[3])>>

VScale(k, a) == <<Mul(k, a[1]), Mul(k, a[2]), Mul(k, a[3])>>

Dot(a, b) == Add(Add(Mul(a[1], b[1]), Mul(a[2], b[2])), Mul(a[3], b[3]))

SquaredNorm(a) == Dot(a, a)

Norm(a) == Sqrt(SquaredNorm(a))

\* Eigen's normalized(): v / sqrt(z) when z = squaredNorm > 0, else v
Normalized(a) ==
    IF Gt(SquaredNorm(a), Zero) THEN VScale(Div(One, Norm(a)), a) ELSE a

\* Eigen::Hyperplane(n, e): the plane through e with normal n
Hyperplane(n, e) == [normal |-> n, offset |-> Neg(Dot(n, e))]

SignedDistance(plane, p) == Add(Dot(plane.normal, p), plane.offset)

PlaneProjection(plane, p) ==
    VSub(p, VScale(SignedDistance(plane, p), plane.normal))

\* Eigen::ParametrizedLine(origin, direction)
ParametrizedLine(o, d) == [origin |-> o, direction |-> d]

PointAt(line, t) == VAdd(line.origin, VScale(t, line.direction))

LineProjection(line, p) ==
    PointAt(line, Dot(line.direction, VSub(p, line.origin)))

LineSquaredDistance(line, p) ==
    LET diff == VSub(p, line.origin)
    IN  SquaredNorm(VSub(diff, VScale(Dot(line.direction, diff), line.direction)))

IntersectionParameter(line, plane) ==
    Neg(Div(Add(plane.offset, Dot(plane.normal, line.origin)),
            Dot(line.direction, plane.normal)))

IntersectionPoint(line, plane) == PointAt(line, IntersectionParameter(line, plane))

(***************************************************************************)
(* DrainHole::is_inside                                                    *)
(***************************************************************************)
\* mutant: the upper bound dist > height is missing
AxialRejectNoUpper(dist, height) == Lt(dist, EPSILON)

\* dist < EPSILON || dist > height
AxialReject(dist, height) == Lt(dist, EPSILON) \/ Gt(dist, height)

IsInsideOp(h, p) ==
    LET plane == Hyperplane(h.normal, h.pos)
        dist == SignedDistance(plane, p)
        axis == ParametrizedLine(h.pos, h.normal)
    IN  IF AxialReject(dist, h.height) THEN FALSE
        ELSE Lt(LineSquaredDistance(axis, p), Mul(h.radius, h.radius))

(***************************************************************************)
(* DrainHole::get_intersections                                            *)
(***************************************************************************)
\* std::make_pair(std::nan(""), Vec3d::Zero())
Sentinel == [first |-> NaN, second |-> <<Zero, Zero, Zero>>]

Hit(par, nrm) == [first |-> par, second |-> nrm]

\* out[found] = hit; ++found. step ("cap" or "wall") is recorded beside it.
Accept(acc, hit, step) ==
    [acc EXCEPT !.out[acc.found + 1] = hit,
                !.found = acc.found + 1,
                !.hits = Append(acc.hits, [hit |-> hit, step |-> step])]

\* mutant: the signs of the two cap normals exchanged
CapNormalFlipped(i, normal) == VScale(IF i = 0 THEN Neg(One) ELSE One, normal)

\* (i==0 ? 1. : -1.) * normal.cast<double>()
CapNormal(i, normal) == VScale(IF i = 0 THEN One ELSE Neg(One), normal)

\* One round of the loop over the bases, i = 1 then i = 0.
CapCheck(h, line, sqr_radius, acc, i) ==
    LET cylinder_center == VAdd(h.pos, VScale(Mul(Q(i, 1), h.height), h.normal))
        base == Hyperplane(h.normal, cylinder_center)
        intersection == IntersectionPoint(line, base)
        acc1 == [acc EXCEPT !.base = base]
    IN  IF Lt(SquaredNorm(VSub(cylinder_center, intersection)), sqr_radius)
        THEN Accept(acc1, Hit(IntersectionParameter(line, base),
                              CapNormal(i, h.normal)), "cap")
        ELSE acc1

CapStep(h, line, sqr_radius, acc) ==
    IF ~IsApprox(Dot(line.direction, h.normal), Zero)
    THEN CapCheck(h, line, sqr_radius, CapCheck(h, line, sqr_radius, acc, 1), 0)
    ELSE [acc EXCEPT !.base = Hyperplane(h.normal, h.pos)]

\* The direction of the ray projected onto the base plane (lines 193-194).
ProjectedDir(line, base) ==
    VSub(PlaneProjection(base, VAdd(line.origin, line.direction)),
         PlaneProjection(base, line.origin))

\* The ray projected onto the base plane, and the secant (lines 193-202).
WallProjection(h, line, base, sqr_radius) ==
    LET proj_origin == PlaneProjection(base, line.origin)
        proj_dir == ProjectedDir(line, base)
        par_scale == Norm(proj_dir)
        projected_ray == ParametrizedLine(proj_origin,
                                          VScale(Div(One, par_scale), proj_dir))
        closest == LineProjection(projected_ray, h.pos)
        radicand == Sub(sqr_radius, SquaredNorm(VSub(closest, h.pos)))
    IN  [proj_origin |-> proj_origin, par_scale |-> par_scale,
         projected_ray |-> projected_ray, closest |-> closest,
         radicand |-> radicand, dist |-> Sqrt(radicand)]

\* mutant: the normal points from the axis to the hit
WallNormalOutward(pos, isect) == Normalized(VSub(isect, pos))

\* (pos-isect).normalized().cast<double>()
WallNormal(pos, isect) == Normalized(VSub(pos, isect))

\* One round of the loop over the two candidates, i = -1 then i = 1.
WallCheck(h, line, w, acc, i) ==
    IF acc.found = 2 THEN acc
    ELSE LET isect == VAdd(w.closest,
                           VScale(Mul(Q(i, 1), w.dist), w.projected_ray.direction))
             par == Div(Norm(VSub(isect, w.proj_origin)), w.par_scale)
             hit_normal == WallNormal(h.pos, isect)
             vert_dist == SignedDistance(acc.base, PointAt(line, par))
         IN  IF Gt(vert_dist, Zero) /\ Lt(vert_dist, h.height)
             THEN Accept(acc, Hit(par, hit_normal), "wall")
             ELSE acc

\* for (int i=-1; i<=1 && found !=2; i+=2)
WallLoop(h, line, w, acc) ==
    WallCheck(h, line, w, WallCheck(h, line, w, acc, -1), 1)

WallStep(h, line, sqr_radius, acc) ==
    IF acc.found # 2 /\ ~IsApprox(FAbs(Dot(line.direction, h.normal)), One)
    THEN WallLoop(h, line, WallProjection(h, line, acc.base, sqr_radius), acc)
    ELSE acc

\* mutant: only the parameters are exchanged, the normals stay
SortHitsParametersOnly(o) ==
    IF Gt(o[1].first, o[2].first)
    THEN <<Hit(o[2].first, o[1].second), Hit(o[1].first, o[2].second)>>
    ELSE o

\* if (out[0].first > out[1].first) std::swap(out[0], out[1])
SortHits(o) == IF Gt(o[1].first, o[2].first) THEN <<o[2], o[1]>> ELSE o

\* lines 220-229: no result unless two hits were accepted, else the sorted pair
Finish(acc) ==
    [ret |-> acc.found = 2,
     out |-> IF acc.found # 2 THEN acc.out ELSE SortHits(acc.out),
     found |-> acc.found,
     hits |-> acc.hits]

\* lines 154-163: out reset to the sentinel, and the bounding sphere of the hole
OutsideSphere(h, line, sqr_radius) ==
    Gt(LineSquaredDistance(line, VAdd(h.pos, VScale(Div(h.height, Two), h.normal))),
       Add(Mul(Div(h.height, Two), Div(h.height, Two)), sqr_radius))

NoHits(h) ==
    [out |-> <<Sentinel, Sentinel>>, found |-> 0, hits |-> <<>>,
     base |-> Hyperplane(h.normal, h.pos)]

IntersectLine(h, line, sqr_radius) ==
    IF OutsideSphere(h, line, sqr_radius)
    THEN [ret |-> FALSE, out |-> <<Sentinel, Sentinel>>, found |-> 0, hits |-> <<>>]
    ELSE Finish(WallStep(h, line, sqr_radius,
                         CapStep(h, line, sqr_radius, NoHits(h))))

GetIntersectionsOp(h, s, dir) ==
    IntersectLine(h, ParametrizedLine(s, Normalized(dir)), Mul(h.radius, h.radius))

\* The inputs on which no square root of get_intersections rounds: the norm of
\* dir, the norm of the projected direction and the half-length of the secant
\* (the secant misses the circle when its radicand is negative).
ExactRay(h, s, dir) ==
    /\ IsSquareQ(SquaredNorm(dir))
    /\ LET line == ParametrizedLine(s, Normalized(dir))
           base == Hyperplane(h.normal, h.pos)
           radicand == WallProjection(h, line, base, Mul(h.radius, h.radius)).radicand
       IN  IF IsApprox(FAbs(Dot(line.direction, h.normal)), One) THEN TRUE
           ELSE /\ IsSquareQ(SquaredNorm(ProjectedDir(line, base)))
                /\ (IsSquareQ(radicand) \/ Lt(radicand, Zero))

Coords == (0 - MaxCoord)..MaxCoord

GridPoints == {V(x, y, z) : x \in Coords, y \in Coords, z \in Coords}

\* Ray directions as the caller passes them (not normalized).
Dirs ==
    { V(1, 0, 0), V(-1, 0, 0), V(0, 1, 0), V(0, -1, 0), V(0, 0, 1), V(0, 0, -1),
      V(0, 2, 0),
      V(0, 3, 4), V(0, -3, 4), V(0, 4, 3), V(3, 0, 4), V(3, 4, 0), V(-4, 3, 0) }

Holes ==
    { [pos |-> p, normal |-> n, radius |-> Q(rh[1], 1), height |-> Q(rh[2], 1)] :
        p \in {V(0, 0, 0), V(0, 1, -1)}, n \in {V(0, 0, 1), V(1, 0, 0)},
        rh \in {<<1, 2>>, <<2, 1>>} }

InteriorIdle ==
    /\ pc = "unused"
    /\ stop = FALSE
    /\ ndebug = TRUE
    /\ hc = [quality |-> Zero, min_thickness |-> One, closing_distance |-> Zero]
    /\ loc = NoLocals
    /\ imesh = InputSurface
    /\ gridptr = NullGrid
    /\ omesh = EmptySurface
    /\ result = "none"
    /\ reports = <<>>
    /\ calls = <<>>
    /\ stopSeen = FALSE

InitHole ==
    /\ InteriorIdle
    /\ hole \in Holes
    /\ phase = "idle"
    /\ ray = <<>>
    /\ pt = <<>>
    /\ out = <<>>
    /\ ret = "none"
    /\ found = 0
    /\ hits = <<>>

\* One call hole.get_intersections(s, dir, out).
GetIntersections ==
    /\ phase = "idle"
    /\ \E a \in {x \in GridPoints \X Dirs : ExactRay(hole, x[1], x[2])} :
         LET s == a[1]
             dir == a[2]
         IN  \E r \in {GetIntersectionsOp(hole, s, dir)} :
                /\ ray' = [s |-> s, dir |-> dir]
                /\ out' = r.out
                /\ ret' = IF r.ret THEN "true" ELSE "false"
                /\ found' = r.found
                /\ hits' = r.hits
    /\ phase' = "intersected"
    /\ UNCHANGED <<hole, pt>>
    /\ UNCHANGED ivars

NextHole == GetIntersections

SpecHole == InitHole /\ [][NextHole]_vars

\* Thin holes too: is_inside compares the axial distance with EPSILON.
InsideHoles ==
    { [pos |-> p, normal |-> n, radius |-> Q(r, 1), height |-> hh] :
        p \in {V(0, 0, 0), V(0, 1, -1)}, n \in {V(0, 0, 1), V(1, 0, 0)},
        r \in {1, 2},
        hh \in {Q(1, 10000), Q(1, 5000), Q(1, 2), Q(2, 1), Q(4, 1)} }

Midpoint(h) == VAdd(h.pos, VScale(Div(h.height, Two), h.normal))

\* Query points: the grid, the axis midpoint, and points on the axis at and
\* around the two base planes.
QueryPoints(h) ==
    GridPoints \cup {Midpoint(h)}
    \cup { VAdd(h.pos, VScale(a, h.normal)) :
             a \in {Neg(EPSILON), Zero, EPSILON, h.height, Add(h.height, EPSILON)} }

InitInside ==
    /\ InteriorIdle
    /\ hole \in InsideHoles
    /\ phase = "idle"
    /\ ray = <<>>
    /\ pt = <<>>
    /\ out = <<>>
    /\ ret = "none"
    /\ found = 0
    /\ hits = <<>>

\* One call hole.is_inside(p).
IsInside ==
    /\ phase = "idle"
    /\ \E p \in QueryPoints(hole) :
         /\ pt' = p
         /\ ret' = IF IsInsideOp(hole, p) THEN "true" ELSE "false"
    /\ phase' = "tested"
    /\ UNCHANGED <<hole, ray, out, found, hits>>
    /\ UNCHANGED ivars

NextInside == IsInside

SpecInside == InitInside /\ [][NextInside]_vars

(***************************************************************************)
(* Claims about generate_interior, checked under Spec.                     *)
(***************************************************************************)
IsPrefix(s, t) == Len(s) <= Len(t) /\ \A i \in 1..Len(s) : s[i] = t[i]

CallOps == {calls[i].op : i \in 1..Len(calls)}

\* C1: once a stopcondition poll has returned true the call has returned an
\* empty surface, and from that poll on (the poll's own step included) no
\* engine operation is started and no status report is issued.
C1_CancelShortCircuits ==
    /\ [](stopSeen => (pc = "done" /\ result = EmptySurface))
    /\ [][stopSeen' => (calls' = calls /\ reports' = reports)]_vars

\* the third poll returned true, after build_grid ran and 0 and 30 were reported
C1_Witness ==
    stopSeen /\ reports = <<0, 30>> /\ Len(calls) >= 1 /\ result = EmptySurface

\* C2: the reports are always a prefix of 0, 30, 70, 100; a finished run
\* reported all four exactly when no poll returned true and the engine
\* produced a grid, and a proper prefix otherwise.
C2_ReportsArePrefix ==
    /\ IsPrefix(reports, <<0, 30, 70, 100>>)
    /\ pc \in {"done", "aborted"} =>
          IF ~stopSeen /\ ~gridptr.null
          THEN reports = <<0, 30, 70, 100>>
          ELSE Len(reports) < 4

C2_Witness == pc = "done" /\ ~stopSeen /\ reports = <<0, 30, 70, 100>>

\* C3: when build_grid returns no grid the call ends normally with an empty
\* surface, having reported only 0% and started no other engine operation.
C3_GridFailureRecoverable ==
    (calls # <<>> /\ gridptr.null) =>
        /\ pc = "done"
        /\ result = EmptySurface
        /\ reports = <<0>>
        /\ CallOps = {"build_grid"}

\* C9: redistance is called iff closing_distance > 0, with isovalue
\* -(offset + D) and band 1.1 * (offset + D); the isosurface is extracted at D
\* then, and at -offset when closing_distance = 0; adaptivity is 0 and the
\* result is scaled by the reciprocal of the factor applied to the input copy.
C9_ClosingAndIsovalue ==
    LET vs == loc.voxel_scale
        offset == Mul(vs, hc.min_thickness)
        D == Mul(vs, hc.closing_distance)
        closing == Gt(hc.closing_distance, Zero)
    IN  /\ \A i \in 1..Len(calls) :
               calls[i].op = "redistance" =>
                   /\ closing
                   /\ calls[i].a = Neg(Add(offset, D))
                   /\ calls[i].b = Mul(Q(11, 10), Add(offset, D))
        /\ \A i \in 1..Len(calls) :
               calls[i].op = "extract_isosurface" =>
                   /\ calls[i].a = IF closing THEN D ELSE Neg(offset)
                   /\ calls[i].b = Zero
                   /\ closing <=> \E j \in 1..(i - 1) : calls[j].op = "redistance"
        /\ ~omesh.empty =>
               /\ imesh.scale = vs
               /\ omesh.scale = Mul(imesh.scale, Div(One, vs))
               /\ omesh.scale = One

\* a finished run on the closing path: build_grid, redistance, extract
C9_Witness ==
    /\ pc = "done"
    /\ result = omesh
    /\ ~omesh.empty
    /\ Len(calls) = 3
    /\ calls[2].op = "redistance"

(***************************************************************************)
(* Claims about DrainHole, checked under SpecHole and SpecInside.          *)
(***************************************************************************)
\* signed distance of p from the base plane, along the axis
Axial(h, p) == Dot(VSub(p, h.pos), h.normal)

\* the point of the axis at the height of p
AxisPoint(h, p) == VAdd(h.pos, VScale(Axial(h, p), h.normal))

\* squared distance of p from the axis
RadialSqr(h, p) == SquaredNorm(VSub(p, AxisPoint(h, p)))

\* p lies on a cap disk or on the lateral wall between the caps
OnBoundary(h, p) ==
    \/ /\ Axial(h, p) \in {Zero, h.height}
       /\ Le(RadialSqr(h, p), Mul(h.radius, h.radius))
    \/ /\ Le(Zero, Axial(h, p)) /\ Le(Axial(h, p), h.height)
       /\ RadialSqr(h, p) = Mul(h.radius, h.radius)

Returned == phase = "intersected" /\ ret = "true"

\* ray_origin + t * normalize(ray_direction) for the i-th returned parameter
HitPoint(i) == PointAt(ParametrizedLine(ray.s, Normalized(ray.dir)), out[i].first)

\* C4: whenever get_intersections reports found, both returned parameters
\* give points of the cylinder's boundary, wherever the origin lies on the line.
C4_HitsOnBoundary ==
    Returned => \A i \in {1, 2} : OnBoundary(hole, HitPoint(i))

\* C5 as claimed: is_inside holds at the axis midpoint of every hole, and
\* fails at every point whose axial distance is above height or below 0.
C5_MidpointInsideAnyHeight ==
    phase = "tested" =>
        /\ pt = Midpoint(hole) => ret = "true"
        /\ (Gt(Axial(hole, pt), hole.height) \/ Lt(Axial(hole, pt), Zero)) =>
               ret = "false"

\* C5 amended: is_inside holds at the axis midpoint of every hole whose half
\* height is at least EPSILON, and fails at every point whose axial distance
\* is above height or below 0.
C5_MidpointInside ==
    phase = "tested" =>
        /\ (pt = Midpoint(hole) /\ Le(Mul(Two, EPSILON), hole.height)) =>
               ret = "true"
        /\ (Gt(Axial(hole, pt), hole.height) \/ Lt(Axial(hole, pt), Zero)) =>
               ret = "false"

C5_Witness ==
    /\ phase = "tested"
    /\ pt = Midpoint(hole)
    /\ hole.height = Mul(Two, EPSILON)
    /\ ret = "true"

\* C6: a successful result is ordered by ascending parameter, and each entry
\* is one of the accepted hits, parameter and normal together.
C6_Ordered ==
    Returned =>
        /\ Le(out[1].first, out[2].first)
        /\ \/ out = <<hits[1].hit, hits[2].hit>>
           \/ out = <<hits[2].hit, hits[1].hit>>

\* the hits were accepted in descending order, with different normals: swapped
C6_Witness ==
    /\ Returned
    /\ Gt(hits[1].hit.first, hits[2].hit.first)
    /\ hits[1].hit.second # hits[2].hit.second

AxialRay ==
    /\ phase = "intersected"
    /\ Normalized(ray.dir) = hole.normal
    /\ RadialSqr(hole, ray.s) = Zero
    /\ (Lt(Axial(hole, ray.s), Zero) \/ Gt(Axial(hole, ray.s), hole.height))

\* C7: a ray along the axis from outside the cylinder yields exactly two cap
\* hits, the first on the near cap (axial position 0, normal +normal), the
\* second on the far cap (axial position height, normal -normal); the wall
\* step contributes none.
C7_AxialRayHitsCaps ==
    AxialRay =>
        /\ ret = "true"
        /\ found = 2
        /\ \A i \in {1, 2} : hits[i].step = "cap" /\ RadialSqr(hole, HitPoint(i)) = Zero
        /\ Axial(hole, HitPoint(1)) = Zero
        /\ out[1].second = hole.normal
        /\ Axial(hole, HitPoint(2)) = hole.height
        /\ out[2].second = VScale(Neg(One), hole.normal)

\* the origin lies past the far cap: both parameters are negative
C7_Witness ==
    AxialRay /\ ret = "true" /\ Gt(Axial(hole, ray.s), hole.height)
             /\ Lt(out[2].first, Zero)

\* vector from the ray origin to the axis, orthogonal to the axis
ToAxis == VSub(AxisPoint(hole, ray.s), ray.s)

OrthogonalRay ==
    /\ phase = "intersected"
    /\ Dot(Normalized(ray.dir), hole.normal) = Zero
    /\ Gt(Axial(hole, ray.s), Zero) /\ Lt(Axial(hole, ray.s), hole.height)
    /\ Gt(Norm(ToAxis), hole.radius)
    /\ VScale(Norm(ToAxis), Normalized(ray.dir)) = ToAxis

\* C8: a ray orthogonal to the axis that crosses it strictly between the
\* caps, from an origin at distance d > radius, yields exactly two wall hits
\* at d - radius and d + radius, each normal orthogonal to the axis and
\* pointing from the hit to the axis.
C8_OrthogonalRayHitsWall ==
    OrthogonalRay =>
        /\ ret = "true"
        /\ found = 2
        /\ out[1].first = Sub(Norm(ToAxis), hole.radius)
        /\ out[2].first = Add(Norm(ToAxis), hole.radius)
        /\ \A i \in {1, 2} :
               /\ hits[i].step = "wall"
               /\ Dot(out[i].second, hole.normal) = Zero
               /\ out[i].second =
                      Normalized(VSub(AxisPoint(hole, HitPoint(i)), HitPoint(i)))

C8_Witness == OrthogonalRay /\ ret = "true" /\ hole.pos # V(0, 0, 0)

\* C10: get_intersections returns true iff exactly two hits were accepted,
\* and whenever it returns false both entries of out hold the sentinel.
C10_NoPartialResult ==
    phase = "intersected" =>
        /\ ret = "true" <=> found = 2
        /\ ret = "false" => out = <<Sentinel, Sentinel>>

====
